---------------------------- MODULE Spec2Model ----------------------------
(***************************************************************************)
(* InstaAgent: the smart-comment pipeline (services/smart-comment.ts), the *)
(* idempotency ledger (models/PostMemory.ts), the scheduler                *)
(* (services/scheduler.ts) and the HTTP entry points (app.ts, the webhook  *)
(* router) as one state machine.                                           *)
(*                                                                         *)
(* Node runs every handler to its next await without interruption, so one  *)
(* action is the code between two awaits: the resolution of the awaited    *)
(* call together with the synchronous continuation that follows it.        *)
(***************************************************************************)
EXTENDS Integers, Sequences, FiniteSets, Bags, TLC

VARIABLES
    botConfig,       \* config/botConfig.ts, fixed for the life of the process
    now,             \* the wall clock, in ticks
    igClient,        \* client/Instagram.ts: the module-level igClient
    ledger,          \* the PostMemory collection: a bag of documents
    task,            \* SchedulerService.task: TRUE when a cron task is armed
    timers,          \* number of cron tasks that are scheduled and not stopped
    startup,         \* number of pending runOnStartup setTimeout callbacks
    isRunning,       \* SchedulerService.isRunning
    runCount,        \* SchedulerService.runCount
    lastRunTime,     \* SchedulerService.lastRunTime (-1: null)
    lastRunResults,  \* SchedulerService.lastRunResults
    lastGuard,       \* what the last runScheduledTask guard logged
    activeJobs,      \* webhook router: keys of activeJobs
    response,        \* the HTTP response sent last
    bt,              \* the processTargets executions in flight, by slot
    started,         \* number of processTargets executions started so far
    posted,          \* history: successful postComment calls per (account, post)
    unconfirmed,     \* history: the unit whose postComment threw last
    gateCall         \* the last direct call of shouldCommentBasedOnLength

vars == <<botConfig, timers, startup, now, igClient, ledger, task, isRunning,
          runCount, lastRunTime, lastRunResults, lastGuard, activeJobs,
          response, bt, started, posted, unconfirmed, gateCall>>

-----------------------------------------------------------------------------
(* Bounds of the model *)

\* clock ticks per day: the clock's resolution
TicksPerDay == 10
\* the clock value at process start
Now0 == 100
\* clock ticks that may pass during a behaviour
MaxElapsed == 2
\* processTargets executions that may be in flight together
MaxBatches == 2
\* processTargets executions started in one behaviour
MaxStarts == 2
\* runScheduledTask invocations that pass the guard in one behaviour
MaxRuns == 2
\* the largest caption length handed to the caption-length gate
MaxCaptionLen == 2202
\* runOnStartup callbacks that may be pending together
MaxPending == 1
\* days the process may stay idle in one pause
LongPauseDays == 1000

-----------------------------------------------------------------------------
(* Program constants: config/botConfig.ts *)

captionMin == 50
captionMax == 2200
maxPostAgeDays == 1
disabledPostAgeDays == 999

-----------------------------------------------------------------------------
(* Data *)

Accounts == {"a1", "a2", "a3"}
PostIds == {"p1", "p2", "p3", "p4"}

\* publishedAt of each post on the clock: at Now0 the four posts are
\* 0.5, 2, 0.9 and 10 days old.
PostTime ==
    [p1 |-> Now0 - TicksPerDay \div 2, p2 |-> Now0 - 2 * TicksPerDay,
     p3 |-> Now0 - (9 * TicksPerDay) \div 10, p4 |-> Now0 - 10 * TicksPerDay]
PostPinned == [p1 |-> FALSE, p2 |-> FALSE, p3 |-> FALSE, p4 |-> TRUE]

\* One element of getLastFourPosts' result.
Post(id) == [postId |-> id, timestamp |-> PostTime[id], isPinned |-> PostPinned[id]]
NoPost == [postId |-> "none", timestamp |-> 0, isPinned |-> FALSE]

\* The same post found with another pin icon state on the profile grid.
Pinned(post, pin) == [post EXCEPT !.isPinned = pin]

SeqRange(s) == {s[i] : i \in 1..Len(s)}

\* The sequences of distinct elements of S with at most n elements.
RECURSIVE DistinctSeqs(_, _)
DistinctSeqs(S, n) ==
    IF n = 0 THEN {<<>>}
    ELSE LET shorter == DistinctSeqs(S, n - 1)
         IN shorter \cup
            {Append(p[1], p[2]) :
                p \in {q \in shorter \X S : q[2] \notin SeqRange(q[1])}}

-----------------------------------------------------------------------------
(* models/PostMemory.ts: the ledger *)

Doc(account, postId, ok) ==
    [platform |-> "instagram", targetAccount |-> account, postId |-> postId,
     wasSuccessful |-> ok]

\* Model.countDocuments({platform, targetAccount, postId}) on collection led.
countDocuments(led, account, postId) ==
    CopiesIn(Doc(account, postId, TRUE), led)
        + CopiesIn(Doc(account, postId, FALSE), led)

\* A ledger lookup that never finds a record.
NeverCommented(led, account, postId) == FALSE

\* The static hasCommented.
hasCommented(led, account, postId) == countDocuments(led, account, postId) > 0

\* A collection without the compound unique index accepts every document.
NoUniqueIndex(led, doc) == FALSE

\* The compound unique index {platform, targetAccount, postId}: TRUE when
\* inserting doc into led raises the duplicate-key error E11000.
DuplicateKey(led, doc) ==
    countDocuments(led, doc.targetAccount, doc.postId) > 0

\* A write that keeps only the newest document of each account.
InsertLatestOnly(led, doc) ==
    SetToBag({d \in BagToSet(led) : d.targetAccount # doc.targetAccount}
             \cup {doc})

\* A create that resolves without storing the document.
InsertDropped(led, doc) == led

\* Model.create(doc) when the store accepts it.
Insert(led, doc) == led (+) SetToBag({doc})

-----------------------------------------------------------------------------
(* IgClient.getLastFourPosts: the final sort *)

\* s is sorted newest first; p goes behind every element that is not older
\* (Array.prototype.sort is stable).
RECURSIVE InsertNewestFirst(_, _)
InsertNewestFirst(s, p) ==
    IF s = <<>> THEN <<p>>
    ELSE IF p.timestamp - Head(s).timestamp > 0
         THEN <<p>> \o s
         ELSE <<Head(s)>> \o InsertNewestFirst(Tail(s), p)

RECURSIVE SortFrom(_, _)
SortFrom(done, rest) ==
    IF rest = <<>> THEN done
    ELSE SortFrom(InsertNewestFirst(done, Head(rest)), Tail(rest))

\* A discovery that returns the posts in page order.
PageOrder(raw) == raw

\* postsWithTimestamps.sort((a, b) => b.timestamp - a.timestamp)
SortNewestFirst(raw) == SortFrom(<<>>, raw)

-----------------------------------------------------------------------------
(* SmartCommentService: the pure parts *)

\* The gate with the comparison against min off by one.
GateOffByOne(config, captionLength) ==
    IF ~config.enabled THEN [allowed |-> TRUE, reason |-> "none"]
    ELSE IF captionLength <= config.min
         THEN [allowed |-> FALSE, reason |-> "Caption too short"]
    ELSE IF captionLength > config.max
         THEN [allowed |-> FALSE, reason |-> "Caption too long"]
    ELSE [allowed |-> TRUE, reason |-> "none"]

\* shouldCommentBasedOnLength, with config = botConfig.filtering.captionLength
shouldCommentBasedOnLength(config, captionLength) ==
    IF ~config.enabled THEN [allowed |-> TRUE, reason |-> "none"]
    ELSE IF captionLength < config.min
         THEN [allowed |-> FALSE, reason |-> "Caption too short"]
    ELSE IF captionLength > config.max
         THEN [allowed |-> FALSE, reason |-> "Caption too long"]
    ELSE [allowed |-> TRUE, reason |-> "none"]

\* maxPostAgeDays of commentOnLatestPost
MaxPostAgeDays(cfg) ==
    IF cfg.maxPostAge.enabled THEN cfg.maxPostAge.days ELSE disabledPostAgeDays

\* maxPostAgeMs, in clock ticks
MaxPostAgeTicks(cfg) == MaxPostAgeDays(cfg) * TicksPerDay

\* A filter that also drops every pinned post.
PinnedOrTooOld(cfg, t, post) ==
    \/ post.isPinned
    \/ cfg.maxPostAge.enabled /\ t - post.timestamp > MaxPostAgeTicks(cfg)

\* An age test that also drops a post aged exactly the limit.
TooOldInclusive(cfg, t, post) ==
    cfg.maxPostAge.enabled /\ t - post.timestamp >= MaxPostAgeTicks(cfg)

\* botConfig.filtering.maxPostAge.enabled && postAge > maxPostAgeMs
TooOld(cfg, t, post) ==
    cfg.maxPostAge.enabled /\ t - post.timestamp > MaxPostAgeTicks(cfg)

\* The filter loop runs through the posts that are too old without awaiting:
\* the first index from k on whose post needs the ledger, or Len(posts) + 1.
RECURSIVE SkipTooOld(_, _, _, _)
SkipTooOld(cfg, t, posts, k) ==
    IF k > Len(posts) THEN k
    ELSE IF TooOld(cfg, t, posts[k]) THEN SkipTooOld(cfg, t, posts, k + 1)
    ELSE k

\* The CommentResult values; captionLength and comment are left out.
Skipped(account, reason) ==
    [targetAccount |-> account, success |-> TRUE, action |-> "skipped",
     reason |-> reason, postId |-> "none"]
Failed(account, reason) ==
    [targetAccount |-> account, success |-> FALSE, action |-> "failed",
     reason |-> reason, postId |-> "none"]
Commented(account, postId) ==
    [targetAccount |-> account, success |-> TRUE, action |-> "commented",
     reason |-> "none", postId |-> postId]

-----------------------------------------------------------------------------
(* SmartCommentService.processTargets and commentOnLatestPost *)

BatchIds == 1..MaxBatches

\* The locals of one processTargets execution and of the commentOnLatestPost
\* call it is awaiting.  pc names the await the call is suspended at.  runId
\* and startTime are the locals of the runScheduledTask call that awaits it.
FreeSlot ==
    [origin |-> "free", runId |-> 0, accounts |-> <<>>, i |-> 0,
     results |-> <<>>, pc |-> "free", client |-> "none", posts |-> <<>>,
     k |-> 0, eligible |-> <<>>, nowF |-> -1, sel |-> NoPost, capLen |-> -1,
     comment |-> "", startTime |-> -1]

\* processTargets(accounts) entered: results = [], first account.
NewBatch(origin, runId, accounts) ==
    [FreeSlot EXCEPT !.origin = origin, !.runId = runId,
                     !.accounts = accounts, !.i = 1, !.pc = "client"]

InFlight(b) == bt[b].origin # "free"
Account(b) == bt[b].accounts[bt[b].i]

\* The lowest free slot, if there is one.
HasFreeSlot == \E b \in BatchIds : ~InFlight(b)
NextSlot == CHOOSE b \in BatchIds :
                ~InFlight(b) /\ \A c \in BatchIds : c < b => InFlight(c)

\* commentOnLatestPost returns res (from a return or from its catch), and
\* processTargets pushes it and starts the delay.
Return(B, res) ==
    [B EXCEPT !.results = Append(@, res), !.pc = "delay", !.client = "none",
              !.posts = <<>>, !.k = 0, !.eligible = <<>>, !.nowF = -1,
              !.sel = NoPost, !.capLen = -1, !.comment = ""]

\* A pipeline whose catch blocks let an error escape to the caller.
Uncaught(reason) == FALSE

\* The catch of commentOnLatestPost (lines 182-190) catches every error.
Caught(reason) == TRUE

\* A call awaited by commentOnLatestPost throws or rejects: the catch returns
\* a 'failed' result; an error that escaped would reject processTargets.
Throw(B, reason) ==
    IF Caught(reason) THEN Return(B, Failed(B.accounts[B.i], reason))
    ELSE [B EXCEPT !.pc = "rejected"]

\* A pipeline that goes on to the detail fetch with the newest post of the
\* page when no post is eligible.
AfterLoopGoesOn(B, eligible) ==
    [B EXCEPT !.eligible = eligible, !.k = Len(B.posts) + 1,
              !.sel = IF eligible = <<>> THEN B.posts[1] ELSE eligible[1],
              !.pc = "detail"]

\* Lines 108-124: after the filter loop.
AfterLoop(B, eligible) ==
    IF eligible = <<>>
    THEN Return(B, Skipped(B.accounts[B.i], "No eligible posts"))
    ELSE [B EXCEPT !.eligible = eligible, !.k = Len(B.posts) + 1,
                   !.sel = eligible[1], !.pc = "detail"]

\* await getIgClient(): a first caller creates the client and awaits init();
\* any later caller is handed igClient as it is.
GetIgClient(b) ==
    /\ bt[b].pc = "client"
    /\ IF igClient = "none"
       THEN /\ igClient' = "initializing"
            /\ bt' = [bt EXCEPT ![b].pc = "init"]
       ELSE /\ bt' = [bt EXCEPT ![b].pc = "discover", ![b].client = igClient]
            /\ UNCHANGED igClient
    /\ UNCHANGED <<botConfig, unconfirmed, response, timers, startup, now, ledger, task, isRunning, runCount,
                   lastRunTime, lastRunResults, lastGuard, activeJobs,
                   started, posted, gateCall>>

\* igClient.init() resolves or rejects; a rejection leaves igClient assigned.
InitDone(b, ok) ==
    /\ bt[b].pc = "init"
    /\ IF ok
       THEN /\ igClient' = "ready"
            /\ bt' = [bt EXCEPT ![b].pc = "discover", ![b].client = "ready"]
       ELSE /\ igClient' = "broken"
            /\ bt' = [bt EXCEPT ![b] = Throw(@, "client")]
    /\ UNCHANGED <<botConfig, unconfirmed, response, timers, startup, now, ledger, task, isRunning, runCount,
                   lastRunTime, lastRunResults, lastGuard, activeJobs,
                   started, posted, gateCall>>

\* client.getLastFourPosts(targetAccount) resolves with the posts found on
\* the page (raw, in page order) sorted, or rejects; then lines 64-94.
Discover(b, raw, ok) ==
    /\ bt[b].pc = "discover"
    /\ LET B == bt[b]
           posts == SortNewestFirst(raw)
           k == SkipTooOld(botConfig.filtering, now, posts, 1)
       IN bt' = [bt EXCEPT ![b] =
             IF ~ok THEN Throw(B, "client")
             ELSE IF posts = <<>>
                  THEN Return(B, Skipped(Account(b), "No posts found"))
             ELSE IF k > Len(posts)
                  THEN AfterLoop([B EXCEPT !.posts = posts, !.nowF = now], <<>>)
             ELSE [B EXCEPT !.posts = posts, !.k = k, !.nowF = now,
                            !.pc = "filter"]]
    /\ UNCHANGED <<botConfig, unconfirmed, response, timers, startup, now, igClient, ledger, task, isRunning,
                   runCount, lastRunTime, lastRunResults, lastGuard,
                   activeJobs, started, posted, gateCall>>

\* PostMemory.hasCommented('instagram', targetAccount, post.postId) resolves
\* against the ledger as it is now, or rejects; then lines 98-124.
HasCommented(b, ok) ==
    /\ bt[b].pc = "filter"
    /\ LET B == bt[b]
           post == B.posts[B.k]
           eligible == IF hasCommented(ledger, Account(b), post.postId)
                       THEN B.eligible ELSE Append(B.eligible, post)
           k == SkipTooOld(botConfig.filtering, B.nowF, B.posts, B.k + 1)
       IN bt' = [bt EXCEPT ![b] =
             IF ~ok THEN Throw(B, "ledger")
             ELSE IF k > Len(B.posts) THEN AfterLoop(B, eligible)
             ELSE [B EXCEPT !.eligible = eligible, !.k = k]]
    /\ UNCHANGED <<botConfig, unconfirmed, response, timers, startup, now, igClient, ledger, task, isRunning,
                   runCount, lastRunTime, lastRunResults, lastGuard,
                   activeJobs, started, posted, gateCall>>

\* client.getPostDetails(postUrl) resolves with null, with a post whose
\* caption has length d, or rejects ("Page not initialized").
GetPostDetails(b, d) ==
    /\ bt[b].pc = "detail"
    /\ LET B == bt[b]
       IN bt' = [bt EXCEPT ![b] =
             IF d = -2 THEN Throw(B, "client")
             ELSE IF d = -1
                  THEN Return(B, Skipped(Account(b), "Failed to get post details"))
             ELSE [B EXCEPT !.capLen = d, !.pc = "generate"]]
    /\ UNCHANGED <<botConfig, unconfirmed, response, timers, startup, now, igClient, ledger, task, isRunning,
                   runCount, lastRunTime, lastRunResults, lastGuard,
                   activeJobs, started, posted, gateCall>>

\* openRouterService.generateInstagramComment resolves with a comment
\* ("" is falsy and makes line 149 throw) or rejects.
Generate(b, out) ==
    /\ bt[b].pc = "generate"
    /\ LET B == bt[b]
       IN bt' = [bt EXCEPT ![b] =
             IF out \in {"", "throw"}
             THEN Throw(B, "generate")
             ELSE [B EXCEPT !.comment = out, !.pc = "submit"]]
    /\ UNCHANGED <<botConfig, unconfirmed, response, timers, startup, now, igClient, ledger, task, isRunning,
                   runCount, lastRunTime, lastRunResults, lastGuard,
                   activeJobs, started, posted, gateCall>>

\* A failed submission that leaves a wasSuccessful: false document behind.
SubmitFailedRecorded(B, led) ==
    IF DuplicateKey(led, Doc(B.accounts[B.i], B.sel.postId, FALSE)) THEN led
    ELSE Insert(led, Doc(B.accounts[B.i], B.sel.postId, FALSE))

\* The ledger after a postComment that threw: line 154 jumps to the catch.
SubmitFailed(B, led) == led

\* A unit of engagement: one post of one account.
Unit(account, postId) == [account |-> account, postId |-> postId]
NoUnit == Unit("none", "none")

\* client.postComment(postUrl, comment) resolves or rejects.
PostComment(b, ok) ==
    /\ bt[b].pc = "submit"
    /\ LET B == bt[b]
       IN IF ok
          THEN /\ bt' = [bt EXCEPT ![b].pc = "record"]
               /\ posted' = [posted EXCEPT ![<<Account(b), B.sel.postId>>] = @ + 1]
               /\ unconfirmed' =
                     IF unconfirmed = Unit(Account(b), B.sel.postId)
                     THEN NoUnit ELSE unconfirmed
               /\ UNCHANGED ledger
          ELSE /\ bt' = [bt EXCEPT ![b] = Throw(B, "submit")]
               /\ ledger' = SubmitFailed(B, ledger)
               /\ unconfirmed' = Unit(Account(b), B.sel.postId)
               /\ UNCHANGED posted
    /\ UNCHANGED <<botConfig, response, timers, startup, now, igClient, task, isRunning, runCount,
                   lastRunTime, lastRunResults, lastGuard, activeJobs,
                   started, gateCall>>

\* PostMemory.recordComment({... wasSuccessful: true}): this.create resolves,
\* or rejects with E11000 (the unique index) or with another storage error.
RecordComment(b, fault) ==
    /\ bt[b].pc = "record"
    /\ LET B == bt[b]
           doc == Doc(Account(b), B.sel.postId, TRUE)
       IN IF fault
          THEN /\ bt' = [bt EXCEPT ![b] = Throw(B, "ledger")]
               /\ UNCHANGED ledger
          ELSE IF DuplicateKey(ledger, doc)
          THEN /\ bt' = [bt EXCEPT ![b] = Throw(B, "E11000")]
               /\ UNCHANGED ledger
          ELSE /\ bt' = [bt EXCEPT ![b] =
                            Return(B, Commented(Account(b), B.sel.postId))]
               /\ ledger' = Insert(ledger, doc)
    /\ UNCHANGED <<botConfig, unconfirmed, response, timers, startup, now, igClient, task, isRunning, runCount,
                   lastRunTime, lastRunResults, lastGuard, activeJobs,
                   started, posted, gateCall>>

\* A loop that does not await commentOnLatestPost: it goes on to the next
\* account while the pipeline of the current one is still in progress.
DelayNotAwaited(b) ==
    /\ InFlight(b)
    /\ bt[b].pc # "rejected"
    /\ bt[b].i < Len(bt[b].accounts)
    /\ bt' = [bt EXCEPT ![b].i = @ + 1, ![b].pc = "client"]
    /\ UNCHANGED <<botConfig, unconfirmed, response, timers, startup, now, igClient, ledger, task, isRunning,
                   runCount, lastRunTime, lastRunResults, lastGuard,
                   activeJobs, started, posted, gateCall>>

\* A loop that gives up on the remaining accounts after a failure.
DelayAbortsAfterFailure(b) ==
    /\ bt[b].pc = "delay"
    /\ bt[b].i < Len(bt[b].accounts)
    /\ bt' = [bt EXCEPT ![b].i = IF bt[b].results[Len(bt[b].results)].action = "failed"
                                 THEN Len(bt[b].accounts) ELSE @ + 1,
                        ![b].pc = IF bt[b].results[Len(bt[b].results)].action = "failed"
                                  THEN "delay" ELSE "client"]
    /\ UNCHANGED <<botConfig, unconfirmed, response, timers, startup, now, igClient, ledger, task, isRunning,
                   runCount, lastRunTime, lastRunResults, lastGuard,
                   activeJobs, started, posted, gateCall>>

\* The delay after an account (lines 207-212) elapses and the loop goes on
\* to the next account.
Delay(b) ==
    /\ bt[b].pc = "delay"
    /\ bt[b].i < Len(bt[b].accounts)
    /\ bt' = [bt EXCEPT ![b].i = @ + 1, ![b].pc = "client"]
    /\ UNCHANGED <<botConfig, unconfirmed, response, timers, startup, now, igClient, ledger, task, isRunning,
                   runCount, lastRunTime, lastRunResults, lastGuard,
                   activeJobs, started, posted, gateCall>>

\* The delay after the last account has elapsed: processTargets is about to
\* return its results to the caller.
Returning(b) ==
    /\ bt[b].pc = "delay"
    /\ bt[b].i = Len(bt[b].accounts)

\* The promise of processTargets has rejected.
Rejected(b) == bt[b].pc = "rejected"

-----------------------------------------------------------------------------
(* SchedulerService *)

NoSnapshot ==
    [runId |-> 0, timestamp |-> -1, targets |-> 0, results |-> <<>>,
     error |-> FALSE]

\* No response sent yet; a response without a result list; the response of
\* /api/smart-comment/run; the response of /api/scheduler/run-now, whose
\* results field is lastRunResults (null before the first snapshot).
NoResponse ==
    [route |-> "none", status |-> 0, hasResults |-> FALSE, runId |-> 0,
     results |-> <<>>, accounts |-> <<>>]
Respond(route, status) ==
    [NoResponse EXCEPT !.route = route, !.status = status]
RespondResults(route, results) ==
    [route |-> route, status |-> 200, hasResults |-> TRUE, runId |-> 0,
     results |-> results, accounts |-> <<>>]
RespondSnapshot(route, snapshot) ==
    [route |-> route, status |-> 200,
     hasResults |-> (snapshot # NoSnapshot /\ ~snapshot.error),
     runId |-> snapshot.runId, results |-> snapshot.results,
     accounts |-> <<>>]

SchedulerOrigins == {"tick", "runNow", "startup"}
SchedulerBatches == {b \in BatchIds : bt[b].origin \in SchedulerOrigins}

\* A guard that never skips.
GuardIgnoresPolicy(running, skipIfRunning) == FALSE

\* Lines 73-77: TRUE when runScheduledTask returns without running.
GuardSkips(running, skipIfRunning) == running /\ skipIfRunning

\* A flag that is not raised before the batch is awaited.
FlagLeftAsIs(running) == running

\* Line 81, this.isRunning = true: the flag once the guard is passed.
FlagRaised(running) == TRUE

\* runScheduledTask up to its first await (line 104), or to its end when it
\* skips or when no target account is configured (finally: line 141).
RunScheduledTask(origin) ==
    IF GuardSkips(isRunning, botConfig.scheduler.skipIfRunning)
    THEN /\ lastGuard' = "skipped"
         /\ UNCHANGED <<isRunning, runCount, lastRunTime, lastRunResults,
                        bt, started>>
    ELSE /\ runCount < MaxRuns
         /\ lastGuard' = IF isRunning THEN "proceeding" ELSE "started"
         /\ runCount' = runCount + 1
         /\ lastRunTime' = now
         /\ UNCHANGED lastRunResults
         /\ IF botConfig.target.accounts = <<>>
            THEN /\ isRunning' = FALSE
                 /\ UNCHANGED <<bt, started>>
            ELSE /\ started < MaxStarts
                 /\ HasFreeSlot
                 /\ isRunning' = FlagRaised(isRunning)
                 /\ started' = started + 1
                 /\ bt' = [bt EXCEPT ![NextSlot] =
                              [NewBatch(origin, runCount + 1,
                                        botConfig.target.accounts)
                                  EXCEPT !.startTime = now]]

\* A start() that does not look at this.task.
NeverArmed(t) == FALSE

\* Lines 29-32: if (this.task) return
AlreadyArmed(t) == t

\* start()
Start ==
    /\ IF botConfig.scheduler.enabled /\ ~AlreadyArmed(task)
       THEN /\ task' = TRUE
            /\ timers' = timers + 1
            /\ IF botConfig.scheduler.runOnStartup
               THEN startup < MaxPending /\ startup' = startup + 1
               ELSE UNCHANGED startup
       ELSE UNCHANGED <<task, timers, startup>>
    /\ UNCHANGED <<botConfig, unconfirmed, response, now, igClient, ledger, isRunning, runCount,
                   lastRunTime, lastRunResults, lastGuard, activeJobs, bt,
                   started, posted, gateCall>>

\* A stop() that also forgets the counters and the last snapshot.
StopResetsCounters ==
    /\ IF task
       THEN task' = FALSE /\ timers' = timers - 1
       ELSE UNCHANGED <<task, timers>>
    /\ runCount' = 0
    /\ lastRunTime' = -1
    /\ lastRunResults' = NoSnapshot
    /\ UNCHANGED <<botConfig, unconfirmed, response, startup, now, igClient, ledger, isRunning,
                   lastGuard, activeJobs, bt, started, posted, gateCall>>

\* A stop() that also clears the running flag.
StopAbortsRun ==
    /\ IF task
       THEN task' = FALSE /\ timers' = timers - 1
       ELSE UNCHANGED <<task, timers>>
    /\ isRunning' = FALSE
    /\ UNCHANGED <<botConfig, unconfirmed, response, startup, now, igClient, ledger, runCount,
                   lastRunTime, lastRunResults, lastGuard, activeJobs, bt,
                   started, posted, gateCall>>

\* stop()
Stop ==
    /\ IF task
       THEN task' = FALSE /\ timers' = timers - 1
       ELSE UNCHANGED <<task, timers>>
    /\ UNCHANGED <<botConfig, unconfirmed, response, startup, now, igClient, ledger, isRunning, runCount,
                   lastRunTime, lastRunResults, lastGuard, activeJobs, bt,
                   started, posted, gateCall>>

\* The cron task fires: lines 41-43.
TimerFire ==
    /\ timers > 0
    /\ RunScheduledTask("tick")
    /\ UNCHANGED <<botConfig, unconfirmed, response, timers, startup, now, igClient, ledger, task, activeJobs,
                   posted, gateCall>>

\* The runOnStartup callback fires: line 51.
StartupFire ==
    /\ startup > 0
    /\ startup' = startup - 1
    /\ RunScheduledTask("startup")
    /\ UNCHANGED <<botConfig, unconfirmed, response, timers, now, igClient, ledger, task, activeJobs,
                   posted, gateCall>>

\* POST /api/scheduler/run-now: runNow() up to the first await of
\* runScheduledTask; when that returns at once, runNow returns
\* this.lastRunResults and the handler answers 200.
RunNow ==
    /\ RunScheduledTask("runNow")
    /\ response' =
          IF \/ GuardSkips(isRunning, botConfig.scheduler.skipIfRunning)
             \/ botConfig.target.accounts = <<>>
          THEN RespondSnapshot("runNow", lastRunResults)
          ELSE response
    /\ UNCHANGED <<botConfig, unconfirmed, timers, startup, now, igClient, ledger, task, activeJobs,
                   posted, gateCall>>

\* A runScheduledTask without the finally block: the flag stays raised.
SchedulerRunEndNoFinally(b) ==
    /\ bt[b].origin \in SchedulerOrigins
    /\ Returning(b) \/ Rejected(b)
    /\ lastRunResults' =
          IF Rejected(b)
          THEN [runId |-> bt[b].runId, timestamp |-> lastRunTime,
                targets |-> 0, results |-> <<>>, error |-> TRUE]
          ELSE [runId |-> bt[b].runId, timestamp |-> lastRunTime,
                targets |-> Len(bt[b].accounts), results |-> bt[b].results,
                error |-> FALSE]
    /\ UNCHANGED isRunning
    /\ bt' = [bt EXCEPT ![b] = FreeSlot]
    /\ response' = IF bt[b].origin = "runNow"
                   THEN RespondSnapshot("runNow", lastRunResults')
                   ELSE response
    /\ UNCHANGED <<botConfig, unconfirmed, timers, startup, now, igClient, ledger, task, runCount,
                   lastRunTime, lastGuard, activeJobs, started, posted,
                   gateCall>>

\* processTargets returns to runScheduledTask: lines 107-113, or the catch of
\* lines 132-139 when it rejected, and the finally; a run started by runNow
\* then answers 200 with this.lastRunResults.
SchedulerRunEnd(b) ==
    /\ bt[b].origin \in SchedulerOrigins
    /\ Returning(b) \/ Rejected(b)
    /\ lastRunResults' =
          IF Rejected(b)
          THEN [runId |-> bt[b].runId, timestamp |-> lastRunTime,
                targets |-> 0, results |-> <<>>, error |-> TRUE]
          ELSE [runId |-> bt[b].runId, timestamp |-> lastRunTime,
                targets |-> Len(bt[b].accounts), results |-> bt[b].results,
                error |-> FALSE]
    /\ isRunning' = FALSE
    /\ bt' = [bt EXCEPT ![b] = FreeSlot]
    /\ response' = IF bt[b].origin = "runNow"
                   THEN RespondSnapshot("runNow", lastRunResults')
                   ELSE response
    /\ UNCHANGED <<botConfig, unconfirmed, timers, startup, now, igClient, ledger, task, runCount,
                   lastRunTime, lastGuard, activeJobs, started, posted,
                   gateCall>>

-----------------------------------------------------------------------------
(* app.ts and the webhook router *)

\* processTargets(accounts) called by an HTTP handler.
StartBatch(origin, accounts) ==
    IF accounts = <<>>
    THEN UNCHANGED <<bt, started>>
    ELSE /\ started < MaxStarts
         /\ HasFreeSlot
         /\ started' = started + 1
         /\ bt' = [bt EXCEPT ![NextSlot] = NewBatch(origin, 0, accounts)]

\* POST /api/run-bot: runBot(); with no account processTargets returns at
\* once and the handler answers 200.
RunBot ==
    /\ StartBatch("runBot", botConfig.target.accounts)
    /\ response' = IF botConfig.target.accounts = <<>>
                   THEN Respond("runBot", 200) ELSE response
    /\ UNCHANGED <<botConfig, unconfirmed, timers, startup, now, igClient, ledger, task, isRunning,
                   runCount, lastRunTime, lastRunResults, lastGuard,
                   activeJobs, posted, gateCall>>

\* POST /api/smart-comment/run with body.targets = targets
SmartCommentRun(targets) ==
    /\ StartBatch("smartRun", targets)
    /\ response' = IF targets = <<>>
                   THEN RespondResults("smartRun", <<>>) ELSE response
    /\ UNCHANGED <<botConfig, unconfirmed, timers, startup, now, igClient, ledger, task, isRunning,
                   runCount, lastRunTime, lastRunResults, lastGuard,
                   activeJobs, posted, gateCall>>

\* processTargets returns to the handler, which answers 200 (run-bot with a
\* message, smart-comment/run with the results), or rejects and the
\* handler's catch answers 500.
HttpRunEnd(b) ==
    /\ bt[b].origin \in {"runBot", "smartRun"}
    /\ Returning(b) \/ Rejected(b)
    /\ bt' = [bt EXCEPT ![b] = FreeSlot]
    /\ response' =
          IF Rejected(b) THEN Respond(bt[b].origin, 500)
          ELSE IF bt[b].origin = "runBot" THEN Respond("runBot", 200)
          ELSE RespondResults("smartRun", bt[b].results)
    /\ UNCHANGED <<botConfig, unconfirmed, timers, startup, now, igClient, ledger, task, isRunning,
                   runCount, lastRunTime, lastRunResults, lastGuard,
                   activeJobs, started, posted, gateCall>>

\* GET /api/smart-comment/stats and GET /api/scheduler/stats: getStats
\* counts documents (PostMemory.getStats) and the handler answers 200 with
\* the counts, or 500 when a count rejects.
StatsRoutes == {"stats", "schedulerStats"}
GetStats(route, ok) ==
    /\ response' = Respond(route, IF ok THEN 200 ELSE 500)
    /\ UNCHANGED <<botConfig, unconfirmed, timers, startup, now, igClient, ledger, task, isRunning,
                   runCount, lastRunTime, lastRunResults, lastGuard,
                   activeJobs, bt, started, posted, gateCall>>

AccountRank == [a1 |-> 1, a2 |-> 2, a3 |-> 3]

RECURSIVE InsertAccount(_, _)
InsertAccount(s, a) ==
    IF s = <<>> THEN <<a>>
    ELSE IF AccountRank[a] < AccountRank[Head(s)] THEN <<a>> \o s
    ELSE <<Head(s)>> \o InsertAccount(Tail(s), a)

\* accounts.sort()
RECURSIVE SortAccounts(_)
SortAccounts(s) ==
    IF s = <<>> THEN <<>>
    ELSE InsertAccount(SortAccounts(Tail(s)), Head(s))

\* The values req.body.accounts may hold: an entry is a string or not, and
\* accounts itself is undefined, some other value, or an array.
Str(v) == [t |-> "string", v |-> v]
NotAString == [t |-> "number", v |-> "7"]
ArrayOf(items) == [kind |-> "array", items |-> items]
Undefined == [kind |-> "undefined", items |-> <<>>]
NotAnArray == [kind |-> "string", items |-> <<>>]

\* A well-formed request body for the account list.
WebhookRequest(list, apiKey) ==
    [accounts |-> ArrayOf([i \in 1..Len(list) |-> Str(list[i])]),
     apiKey |-> apiKey]

\* String.prototype.trim on the strings of the model
Trim(v) == IF v = " " THEN "" ELSE v

\* A validation that does not look at the API key.
ValidationIgnoresKey(body, envKey) ==
    IF body.accounts.kind # "array" \/ body.accounts.items = <<>>
    THEN 400
    ELSE IF \E i \in 1..Len(body.accounts.items) :
               \/ body.accounts.items[i].t # "string"
               \/ Trim(body.accounts.items[i].v) = ""
         THEN 400
    ELSE 0

\* Lines 52-77: the status the validation answers with, 0 when it passes.
\* envKey is process.env.WEBHOOK_API_KEY, "" when it is not set.
WebhookValidation(body, envKey) ==
    IF envKey # "" /\ body.apiKey # envKey THEN 401
    ELSE IF body.accounts.kind # "array" \/ body.accounts.items = <<>>
         THEN 400
    ELSE IF \E i \in 1..Len(body.accounts.items) :
               \/ body.accounts.items[i].t # "string"
               \/ Trim(body.accounts.items[i].v) = ""
         THEN 400
    ELSE 0

\* The 409 and 202 answers of the webhook carry the sorted account list.
RespondJob(status, accounts) ==
    [NoResponse EXCEPT !.route = "webhook", !.status = status,
                       !.accounts = accounts]

\* A job key that no running job ever matches.
KeyNeverActive(jobKey, jobs) == FALSE

\* Line 84: activeJobs.has(jobKey)
KeyActive(jobKey, jobs) == jobKey \in jobs

\* POST /api/webhook/run-bot
WebhookRunBot(body, envKey) ==
    /\ LET status == WebhookValidation(body, envKey)
           items == body.accounts.items
           jobKey == SortAccounts([i \in 1..Len(items) |-> items[i].v])
       IN IF status # 0
          THEN /\ response' = Respond("webhook", status)
               /\ UNCHANGED <<activeJobs, bt, started>>
          ELSE IF KeyActive(jobKey, activeJobs)
          THEN /\ response' = RespondJob(409, jobKey)
               /\ UNCHANGED <<activeJobs, bt, started>>
          ELSE /\ activeJobs' = activeJobs \cup {jobKey}
               /\ response' = RespondJob(202, jobKey)
               /\ StartBatch("webhook", jobKey)
    /\ UNCHANGED <<botConfig, unconfirmed, timers, startup, now, igClient, ledger, task,
                   isRunning, runCount, lastRunTime, lastRunResults,
                   lastGuard, posted, gateCall>>

\* A runBotInBackground without the finally: the job key stays.
WebhookJobEndNoFinally(b) ==
    /\ bt[b].origin = "webhook"
    /\ Returning(b) \/ Rejected(b)
    /\ UNCHANGED activeJobs
    /\ bt' = [bt EXCEPT ![b] = FreeSlot]
    /\ UNCHANGED <<botConfig, unconfirmed, response, timers, startup, now, igClient, ledger, task, isRunning,
                   runCount, lastRunTime, lastRunResults, lastGuard,
                   started, posted, gateCall>>

\* runBotInBackground: processTargets returns, finally deletes the job key.
WebhookJobEnd(b) ==
    /\ bt[b].origin = "webhook"
    /\ Returning(b) \/ Rejected(b)
    /\ activeJobs' = activeJobs \ {bt[b].accounts}
    /\ bt' = [bt EXCEPT ![b] = FreeSlot]
    /\ UNCHANGED <<botConfig, unconfirmed, response, timers, startup, now, igClient, ledger, task, isRunning,
                   runCount, lastRunTime, lastRunResults, lastGuard,
                   started, posted, gateCall>>

\* Time passes.
Advance ==
    /\ now < Now0 + MaxElapsed
    /\ now' = now + 1
    /\ UNCHANGED <<botConfig, unconfirmed, response, timers, startup, igClient, ledger, task, isRunning, runCount,
                   lastRunTime, lastRunResults, lastGuard, activeJobs, bt,
                   started, posted, gateCall>>

\* A long time passes: afterwards every post of the example is older than
\* disabledPostAgeDays.
LongPause ==
    /\ now = Now0
    /\ now' = Now0 + LongPauseDays * TicksPerDay
    /\ UNCHANGED <<botConfig, unconfirmed, response, timers, startup, igClient, ledger, task, isRunning, runCount,
                   lastRunTime, lastRunResults, lastGuard, activeJobs, bt,
                   started, posted, gateCall>>

-----------------------------------------------------------------------------
(* A direct call of the caption-length gate (commentOnLatestPost has none) *)

NoGateCall == [captionLength |-> -1, allowed |-> TRUE, reason |-> "none"]

GateCall(captionLength) ==
    /\ gateCall = NoGateCall
    /\ gateCall' =
          [captionLength |-> captionLength] @@
          shouldCommentBasedOnLength(botConfig.filtering.captionLength,
                                     captionLength)
    /\ UNCHANGED <<botConfig, unconfirmed, response, timers, startup, now, igClient, ledger, task, isRunning,
                   runCount, lastRunTime, lastRunResults, lastGuard,
                   activeJobs, bt, started, posted>>

-----------------------------------------------------------------------------
(* Initial states *)

\* config/botConfig.ts as shipped, with one target account
DefaultConfig ==
    [scheduler |-> [enabled |-> TRUE, runOnStartup |-> FALSE,
                    skipIfRunning |-> TRUE],
     filtering |-> [captionLength |-> [enabled |-> TRUE, min |-> captionMin,
                                       max |-> captionMax],
                    maxPostAge |-> [enabled |-> TRUE, days |-> maxPostAgeDays]],
     target |-> [accounts |-> <<"a1">>]]

\* The ledger holding one successful document for each key of keys.
LedgerOf(keys) == SetToBag({Doc(key[1], key[2], TRUE) : key \in keys})

\* The process has just been constructed; the ledger is what earlier
\* processes left in the store.
InitWith(configs, ledgers) ==
    /\ botConfig \in configs
    /\ now = Now0
    /\ igClient = "none"
    /\ ledger \in ledgers
    /\ task = FALSE
    /\ timers = 0
    /\ startup = 0
    /\ isRunning = FALSE
    /\ runCount = 0
    /\ lastRunTime = -1
    /\ lastRunResults = NoSnapshot
    /\ lastGuard = "none"
    /\ activeJobs = {}
    /\ response = NoResponse
    /\ bt = [b \in BatchIds |-> FreeSlot]
    /\ started = 0
    /\ posted = [key \in Accounts \X PostIds |-> 0]
    /\ unconfirmed = NoUnit
    /\ gateCall = NoGateCall

\* What the collaborators may answer.
Comments == {"", "throw", "c"}

Pipeline(b, feeds, lengths) ==
    \/ GetIgClient(b)
    \/ \E ok \in BOOLEAN : InitDone(b, ok)
    \/ \E raw \in feeds, ok \in BOOLEAN : Discover(b, raw, ok)
    \/ \E ok \in BOOLEAN : HasCommented(b, ok)
    \/ \E d \in lengths \cup {-1, -2} : GetPostDetails(b, d)
    \/ \E out \in Comments : Generate(b, out)
    \/ \E ok \in BOOLEAN : PostComment(b, ok)
    \/ \E fault \in BOOLEAN : RecordComment(b, fault)

Idle == \A b \in BatchIds : ~InFlight(b)

-----------------------------------------------------------------------------
(* Spec: every entry point, batches may overlap *)

Feeds == {<<>>, <<Post("p3"), Post("p1")>>}
CaptionLengths == {captionMin}
RequestLists == {<<"a1">>}
WebhookLists == {<<"a1">>, <<"a2">>}

Init ==
    InitWith({[DefaultConfig EXCEPT !.scheduler.skipIfRunning = s] :
                 s \in BOOLEAN},
             {EmptyBag})

Next ==
    \/ Start
    \/ Stop
    \/ TimerFire
    \/ RunNow
    \/ RunBot
    \/ \E targets \in RequestLists : SmartCommentRun(targets)
    \/ \E accounts \in WebhookLists :
          WebhookRunBot(WebhookRequest(accounts, ""), "")
    \/ \E b \in BatchIds : Pipeline(b, Feeds, CaptionLengths)
    \/ \E b \in BatchIds : SchedulerRunEnd(b)
    \/ \E b \in BatchIds : HttpRunEnd(b)
    \/ \E b \in BatchIds : WebhookJobEnd(b)

Spec == Init /\ [][Next]_vars

-----------------------------------------------------------------------------
(* SpecSelect: one account, one run at a time, any page of up to four posts *)

EdgeLengths == {captionMin - 1, captionMin, captionMax, captionMax + 1}
AllFeeds == DistinctSeqs({Post(id) : id \in PostIds}, 4)
AllLedgers == {LedgerOf({"a1"} \X ids) : ids \in SUBSET PostIds}

InitSelect ==
    InitWith({[DefaultConfig EXCEPT !.filtering.maxPostAge.enabled = e] :
                 e \in BOOLEAN},
             AllLedgers)

NextSelect ==
    \/ started = 0 /\ SmartCommentRun(<<"a1">>)
    \/ \E b \in BatchIds : Pipeline(b, AllFeeds, EdgeLengths)
    \/ \E b \in BatchIds : HttpRunEnd(b)
    \/ Advance

SpecSelect == InitSelect /\ [][NextSelect]_vars

-----------------------------------------------------------------------------
(* SpecBatch: lists of up to three accounts, one batch at a time *)

BatchLists == {<<"a2">>}

InitBatch ==
    InitWith({[DefaultConfig EXCEPT !.target.accounts = <<"a1", "a2", "a3">>]},
             {EmptyBag})

NextBatch ==
    \/ started = 0 /\ RunNow
    \/ Idle /\ \E targets \in BatchLists : SmartCommentRun(targets)
    \/ \E b \in BatchIds : Pipeline(b, Feeds, CaptionLengths)
    \/ \E b \in BatchIds : Delay(b)
    \/ \E b \in BatchIds : SchedulerRunEnd(b)
    \/ \E b \in BatchIds : HttpRunEnd(b)

SpecBatch == InitBatch /\ [][NextBatch]_vars

-----------------------------------------------------------------------------
(* SpecTimer: the scheduler alone, started and stopped, over two accounts *)

InitTimer ==
    InitWith({[DefaultConfig EXCEPT !.scheduler.enabled = e,
                                    !.scheduler.runOnStartup = r,
                                    !.target.accounts = <<"a1", "a2">>] :
                 e \in BOOLEAN, r \in BOOLEAN},
             {EmptyBag})

TimerFeeds == {<<Post("p1")>>}

\* A step of a batch in flight: an awaited promise settles.
BatchStep ==
    \E b \in BatchIds :
        \/ Pipeline(b, TimerFeeds, CaptionLengths)
        \/ Delay(b)
        \/ SchedulerRunEnd(b)

NextTimer ==
    \/ Start
    \/ Stop
    \/ TimerFire
    \/ StartupFire
    \/ BatchStep

SpecTimer == InitTimer /\ [][NextTimer]_vars

\* Every awaited call of the collaborators settles and every delay elapses.
SpecTimerFair == SpecTimer /\ WF_vars(BatchStep)

-----------------------------------------------------------------------------
(* SpecWebhook: the webhook alone, well-formed and malformed requests *)

WebhookAccountLists == {<<"a1">>, <<"a1", "a2">>, <<"a2", "a1">>}
ApiKeys == {"", "k"}
EnvKeys == {"", "k"}
MalformedAccounts ==
    {Undefined, NotAnArray, ArrayOf(<<>>), ArrayOf(<<Str("a1"), NotAString>>),
     ArrayOf(<<Str(" ")>>), ArrayOf(<<Str("a1"), Str("")>>)}
WebhookBodies ==
    {WebhookRequest(list, key) : list \in WebhookAccountLists, key \in ApiKeys}
        \cup {[accounts |-> m, apiKey |-> key] :
                  m \in MalformedAccounts, key \in ApiKeys}

InitWebhook == InitWith({DefaultConfig}, {EmptyBag})

NextWebhook ==
    \/ \E body \in WebhookBodies, envKey \in EnvKeys :
          WebhookRunBot(body, envKey)
    \/ \E b \in BatchIds : Pipeline(b, TimerFeeds, CaptionLengths)
    \/ \E b \in BatchIds : Delay(b)
    \/ \E b \in BatchIds : WebhookJobEnd(b)

SpecWebhook == InitWebhook /\ [][NextWebhook]_vars

-----------------------------------------------------------------------------
(* SpecRetry: one account, the same page on every run, one run after another *)

RetryFeeds == {<<Post("p2"), Post("p3"), Post("p1"), Post("p4")>>}

NextRetry ==
    \/ Idle /\ SmartCommentRun(<<"a1">>)
    \/ \E b \in BatchIds : Pipeline(b, RetryFeeds, CaptionLengths)
    \/ \E b \in BatchIds : HttpRunEnd(b)
    \/ Advance

SpecRetry == InitSelect /\ [][NextRetry]_vars

-----------------------------------------------------------------------------
(* SpecGate: the caption-length gate on every length up to MaxCaptionLen *)

InitGate ==
    InitWith({[DefaultConfig EXCEPT !.filtering.captionLength.enabled = e] :
                 e \in BOOLEAN},
             {EmptyBag})

NextGate == \E captionLength \in 0..MaxCaptionLen : GateCall(captionLength)

SpecGate == InitGate /\ [][NextGate]_vars

-----------------------------------------------------------------------------
(* Properties *)

Last(s) == s[Len(s)]
Results(b) == bt[b].results
\* commentOnLatestPost of batch b returns on this step with the given action
Returns(b, action) ==
    /\ InFlight(b)
    /\ bt[b].pc \notin {"delay", "free"}
    /\ bt'[b].pc = "delay"
    /\ Len(bt'[b].results) = Len(bt[b].results) + 1
    /\ Last(bt'[b].results).action = action
\* every result held by a batch in flight or by the scheduler's snapshot
AllResults ==
    UNION {SeqRange(bt[b].results) : b \in BatchIds}
        \cup SeqRange(lastRunResults.results)

\* the unique index on (platform, targetAccount, postId), and what one
\* recordComment call may do to the ledger
LedgerUnique ==
    \A a \in Accounts, p \in PostIds : countDocuments(ledger, a, p) <= 1
InsertOrConflict ==
    \A b \in BatchIds :
        (bt[b].pc = "record" /\ bt'[b] # bt[b]) =>
            LET a == Account(b)
                p == bt[b].sel.postId
                res == Last(bt'[b].results)
            IN IF countDocuments(ledger, a, p) > 0
               THEN /\ ledger' = ledger
                    /\ res \in {Failed(a, "E11000"), Failed(a, "ledger")}
               ELSE \/ ledger' = ledger /\ res = Failed(a, "ledger")
                    \/ /\ ledger' = Insert(ledger, Doc(a, p, TRUE))
                       /\ res = Commented(a, p)
\* C1: the ledger never holds two documents with the same (platform,
\* targetAccount, postId), and a recordComment for a key the ledger already
\* holds inserts nothing and is reported as the duplicate-key conflict, while
\* one for a new key inserts exactly one document unless the store faults.
C1_LedgerUnique == []LedgerUnique /\ [][InsertOrConflict]_vars
\* two recordComment calls for one key were in flight together: one inserted,
\* the other got the conflict
C1_Witness ==
    \E b \in BatchIds, a \in Accounts :
        /\ Failed(a, "E11000") \in SeqRange(bt[b].results)
        /\ \E p \in PostIds : countDocuments(ledger, a, p) = 1

\* C2: postComment succeeds at most once for every (account, post)
C2_AtMostOneSuccessfulComment ==
    \A key \in Accounts \X PostIds : posted[key] <= 1

\* C3: the step on which commentOnLatestPost returns 'failed' leaves the
\* ledger as it was, and every step that changes the ledger is the step on
\* which some invocation returns 'commented': an invocation that fails has
\* written nothing.
C3_FailedWritesNothing ==
    [][/\ \A b \in BatchIds : Returns(b, "failed") => ledger' = ledger
       /\ ledger' # ledger => \E b \in BatchIds : Returns(b, "commented")]_vars
\* a submission threw and the ledger is still empty
C3_Witness ==
    /\ \E a \in Accounts : Failed(a, "submit") \in AllResults
    /\ ledger = EmptyBag

\* the candidates of the page that pass the age filter and have no record
Selected(b) == bt[b].pc \in {"detail", "generate", "submit", "record"}
Survivors(b) ==
    {c \in SeqRange(bt[b].posts) :
        /\ ~(botConfig.filtering.maxPostAge.enabled
             /\ bt[b].nowF - c.timestamp > botConfig.filtering.maxPostAge.days * TicksPerDay)
        /\ countDocuments(ledger, Account(b), c.postId) = 0}
ExamplePage(b) ==
    /\ SeqRange(bt[b].posts) = {Post(id) : id \in PostIds}
    /\ bt[b].nowF = Now0
    /\ botConfig.filtering.maxPostAge.enabled
\* C4: the selected post is not too old, has no ledger record, and no
\* candidate that passes the age filter and has no ledger record is newer;
\* the page with ages 0.5, 2, 0.9 and 10 days selects the 0.5-day post, and
\* the 0.9-day post once the 0.5-day post is recorded.
C4_SelectsNewestSurvivor ==
    \A b \in BatchIds :
        Selected(b) =>
            /\ bt[b].sel \in Survivors(b)
            /\ \A c \in Survivors(b) : c.timestamp <= bt[b].sel.timestamp
            /\ (ExamplePage(b) /\ ledger = EmptyBag) => bt[b].sel.postId = "p1"
            /\ (ExamplePage(b) /\ ledger = LedgerOf({<<"a1", "p1">>}))
                   => bt[b].sel.postId = "p3"
\* the example page with the 0.5-day post recorded: the 0.9-day post is selected
C4_Witness ==
    \E b \in BatchIds :
        /\ bt[b].pc = "detail"
        /\ ExamplePage(b)
        /\ ledger = LedgerOf({<<"a1", "p1">>})
        /\ bt[b].sel.postId = "p3"

\* C5: with skipIfRunning, a timer tick or a runNow() that finds isRunning
\* set starts no batch and leaves runCount, lastRunTime, lastRunResults and
\* isRunning unchanged.
C5_SkipChangesNothing ==
    [][(botConfig.scheduler.skipIfRunning /\ isRunning /\ (TimerFire \/ RunNow))
          => UNCHANGED <<runCount, lastRunTime, lastRunResults, isRunning,
                         bt, started, ledger>>]_vars
\* a trigger was skipped while the first run is in the middle of its pipeline
C5_Witness ==
    /\ botConfig.scheduler.skipIfRunning
    /\ lastGuard = "skipped"
    /\ isRunning
    /\ runCount = 1
    /\ \E b \in SchedulerBatches : bt[b].pc = "submit"

\* C6: at most one processTargets execution is in flight at any time
C6_OneBatchAtATime == Cardinality({b \in BatchIds : InFlight(b)}) <= 1

\* a scheduler-started batch that has not taken a step yet
FreshSchedulerBatch(b) ==
    /\ bt[b].origin \in SchedulerOrigins
    /\ bt[b].pc = "client"
    /\ bt[b].i = 1
\* C7 as stated: a scheduler trigger that arrives right after another one,
\* before the batch that one started has taken a step, is not held back by
\* the guard, so that two scheduler-started batches run together.
C7_RacyGuard ==
    [][(/\ botConfig.scheduler.skipIfRunning
        /\ \E b \in BatchIds : FreshSchedulerBatch(b)
        /\ (TimerFire \/ RunNow))
          => Cardinality({b \in BatchIds : bt'[b].origin \in SchedulerOrigins}) = 2]_vars
\* C7 amended: the guard's check and the raising of isRunning are one
\* uninterrupted step, so with skipIfRunning at most one scheduler-started
\* batch is in flight, and isRunning is set exactly while it is.
C7_GuardIsAtomic ==
    botConfig.scheduler.skipIfRunning =>
        /\ Cardinality(SchedulerBatches) <= 1
        /\ isRunning <=> SchedulerBatches # {}
\* a second trigger arrived before the first run's batch took a step, and
\* was skipped
C7_Witness ==
    /\ botConfig.scheduler.skipIfRunning
    /\ lastGuard = "skipped"
    /\ \E b \in BatchIds : FreshSchedulerBatch(b)

C9_GateBeforeGenerate ==
    \A b \in BatchIds :
        (/\ botConfig.filtering.captionLength.enabled
         /\ bt[b].pc \in {"generate", "submit", "record"})
            => /\ bt[b].capLen >= botConfig.filtering.captionLength.min
               /\ bt[b].capLen <= botConfig.filtering.captionLength.max

\* C10: the gate rejects exactly the lengths below min or above max when it
\* is enabled, and nothing when it is disabled; with [50, 2200], 49 and 2201
\* are rejected, 50 and 2200 are allowed.
C10_GateRejectsOutside ==
    gateCall # NoGateCall =>
        LET L == gateCall.captionLength
            on == botConfig.filtering.captionLength.enabled
        IN /\ gateCall.allowed <=> ~(on /\ (L < captionMin \/ L > captionMax))
           /\ (on /\ L \in {49, 2201}) => ~gateCall.allowed
           /\ L \in {50, 2200} => gateCall.allowed
\* the upper bound itself, gate enabled: allowed
C10_Witness ==
    /\ botConfig.filtering.captionLength.enabled
    /\ gateCall.captionLength = captionMax
    /\ gateCall.allowed


\* C11: a recordComment that hits the duplicate-key conflict after a
\* successful submission yields a result that counts as success, not 'failed'
C11_ConflictIsSuccess ==
    \A r \in AllResults : r.reason = "E11000" => r.success


\* the run that is executing while no timer is armed has finished and stored
\* a snapshot with one result per target account
RunCompleted ==
    /\ ~isRunning
    /\ lastRunResults.runId = runCount
    /\ Len(lastRunResults.results) = Len(botConfig.target.accounts)
\* C12: stop() changes neither isRunning nor the batch in flight, the
\* snapshot, the counters or the ledger, and a run that is executing when the
\* timer is disarmed goes on through all its accounts, stores its snapshot
\* and clears isRunning.
C12_StopLeavesRunAlone ==
    /\ [][Stop => UNCHANGED <<isRunning, bt, runCount, lastRunTime,
                               lastRunResults, ledger, igClient>>]_vars
    /\ (isRunning /\ ~task) ~> RunCompleted
\* stop() was called during a run started by the timer, and the run has gone
\* on to its second account
C12_Witness ==
    /\ ~task
    /\ isRunning
    /\ \E b \in BatchIds :
          bt[b].origin = "tick" /\ bt[b].i = 2 /\ bt[b].pc = "submit"


WebhookBatches == {b \in BatchIds : bt[b].origin = "webhook"}
\* a step on which the webhook answers a request with the given status
WebhookAnswers(status) ==
    /\ response'.route = "webhook"
    /\ response'.status = status
    /\ response' # response \/ started' # started
RefusedWith(body, envKey) ==
    IF envKey # "" /\ body.apiKey # envKey THEN 401
    ELSE IF \/ body.accounts \in {Undefined, NotAnArray, ArrayOf(<<>>)}
            \/ \E x \in SeqRange(body.accounts.items) :
                  x.t # "string" \/ x.v \in {"", " "}
         THEN 400
    ELSE 0
\* C15: the validation refuses a request with 401 when an API key is
\* configured and the request's key differs, and with 400 when accounts is
\* missing, not an array, empty or holds a non-string or blank entry; a step
\* that answers 401 or 400 changes nothing but the response.
C15_RefusalHasNoEffect ==
    /\ [](\A body \in WebhookBodies, envKey \in EnvKeys :
             WebhookValidation(body, envKey) = RefusedWith(body, envKey))
    /\ [][(WebhookAnswers(401) \/ WebhookAnswers(400))
            => /\ response' \in {Respond("webhook", 401), Respond("webhook", 400)}
               /\ UNCHANGED <<activeJobs, bt, started, ledger, igClient,
                              posted, isRunning, runCount, lastRunResults>>]_vars
\* a request was refused with 400 while the job for a1 goes on
C15_Witness ==
    /\ response = Respond("webhook", 400)
    /\ activeJobs = {<<"a1">>}
    /\ \E b \in BatchIds : bt[b].origin = "webhook" /\ bt[b].pc = "submit"


\* processTargets of batch b returns, or rejects, to its caller on this step
BatchEnds(b) == InFlight(b) /\ bt'[b] = FreeSlot
\* C16 as stated: /api/run-bot, /api/smart-comment/run and
\* /api/scheduler/run-now each answer the end of their batch with 200 and a
\* body that carries the batch's result list.
C16_ResultsInEveryAnswer ==
    [][\A b \in BatchIds :
          (BatchEnds(b) /\ bt[b].origin \in {"runBot", "smartRun", "runNow"})
             => /\ response'.status = 200
                /\ response'.hasResults
                /\ response'.results = bt[b].results]_vars
\* C16 amended: processTargets never rejects and no handler ever answers 500,
\* whatever the collaborators throw; /api/smart-comment/run answers 200 with
\* the batch's results, /api/scheduler/run-now answers 200 with the snapshot
\* that holds them, and /api/run-bot answers 200 with a message only.
C16_Never500 ==
    /\ [](response.status # 500 /\ \A b \in BatchIds : ~Rejected(b))
    /\ [][\A b \in BatchIds :
            BatchEnds(b) =>
               CASE bt[b].origin = "smartRun" ->
                        response' = RespondResults("smartRun", bt[b].results)
                 [] bt[b].origin = "runNow" ->
                        /\ response'.route = "runNow"
                        /\ response'.status = 200
                        /\ response'.hasResults
                        /\ response'.results = bt[b].results
                 [] bt[b].origin = "runBot" ->
                        response' = Respond("runBot", 200)
                 [] OTHER -> response' = response]_vars
\* /api/smart-comment/run answered 200 with a result list that holds the
\* 'failed' result of a submission that threw
C16_Witness ==
    /\ response.route = "smartRun"
    /\ response.status = 200
    /\ \E a \in Accounts : Failed(a, "submit") \in SeqRange(response.results)


Recorded(b, c) == countDocuments(ledger, Account(b), c.postId) > 0
\* C18: a candidate that has a ledger record when the filter examines it
\* does not enter the eligible list; the selected post is taken from the
\* eligible list, so no recorded candidate is selected, detail-fetched or
\* submitted; and when every candidate of the page is recorded the
\* invocation returns 'skipped' (or 'failed' on a ledger fault) without
\* selecting anything.
C18_RecordedNeverSelected ==
    /\ [](\A b \in BatchIds :
             /\ Selected(b) =>
                   /\ bt[b].sel \in SeqRange(bt[b].eligible)
                   /\ ~Recorded(b, bt[b].sel)
             /\ (InFlight(b) /\ bt[b].pc \notin {"delay", "rejected"}) =>
                   \A c \in SeqRange(bt[b].eligible) : ~Recorded(b, c)
             /\ (\A c \in SeqRange(bt[b].posts) : Recorded(b, c))
                   => ~Selected(b))
    /\ [][\A b \in BatchIds :
            (bt[b].pc = "filter" /\ bt'[b] # bt[b]) =>
               /\ Recorded(b, bt[b].posts[bt[b].k]) =>
                     bt[b].posts[bt[b].k] \notin SeqRange(bt'[b].eligible)
               /\ (/\ \A c \in SeqRange(bt[b].posts) : Recorded(b, c)
                   /\ bt'[b].pc # "filter") =>
                     /\ bt'[b].pc = "delay"
                     /\ Last(bt'[b].results) \in
                           {Skipped(Account(b), "No eligible posts"),
                            Failed(Account(b), "ledger")}]_vars
\* every post of the four-post page was recorded, the age filter is off:
\* the account was skipped
C18_Witness ==
    /\ ~botConfig.filtering.maxPostAge.enabled
    /\ ledger = LedgerOf({"a1"} \X PostIds)
    /\ response = RespondResults("smartRun",
                                 <<Skipped("a1", "No eligible posts")>>)


-----------------------------------------------------------------------------
(* SpecPinned: two overlapping runs for one account; the pages differ in
   the pinned flags only *)

PinFeeds ==
    {<<Pinned(Post(id), x), Pinned(Post("p1"), y)>> :
        id \in {"p2", "p3"}, x \in BOOLEAN, y \in BOOLEAN}
    \cup {<<Pinned(Post("p2"), x)>> : x \in BOOLEAN}
PinLedgers == {LedgerOf({"a1"} \X ids) : ids \in SUBSET {"p1", "p3"}}

InitPinned ==
    InitWith({[DefaultConfig EXCEPT !.filtering.maxPostAge.enabled = e] :
                 e \in BOOLEAN},
             PinLedgers)

NextPinned ==
    \/ SmartCommentRun(<<"a1">>)
    \/ \E b \in BatchIds : Pipeline(b, PinFeeds, CaptionLengths)
    \/ \E b \in BatchIds : HttpRunEnd(b)

SpecPinned == InitPinned /\ [][NextPinned]_vars

\* A page with the pinned flags erased.
Unpin(posts) == [n \in 1..Len(posts) |-> Pinned(posts[n], FALSE)]

\* No comment has been submitted, so the ledger is the one both runs
\* started with.
LedgerUntouched == \A key \in Accounts \X PostIds : posted[key] = 0

\* Invocation c works on the page, the clock reading and the ledger of
\* invocation b, up to the pinned flags.
Twins(b, c) ==
    /\ b # c
    /\ InFlight(b) /\ InFlight(c)
    /\ Account(b) = Account(c)
    /\ bt[b].posts # <<>>
    /\ Unpin(bt[b].posts) = Unpin(bt[c].posts)
    /\ bt[b].nowF = bt[c].nowF
    /\ LedgerUntouched

\* C19: two invocations of the pipeline whose pages, clock and ledger are
\* the same except for the isPinned values keep the same eligible posts at
\* every point of the filter loop and select the same post, and one of them
\* never returns 'skipped: No eligible posts' (from the filter loop or
\* straight from the discovery) when the other selected a post; the steps
\* after the selection read the selected post's id only.
C19_PinnedFlagIrrelevant ==
    /\ [](\A b, c \in BatchIds :
             Twins(b, c) =>
                /\ (/\ bt[b].pc \in {"filter", "detail", "generate", "submit",
                                     "record"}
                    /\ bt[c].pc \in {"filter", "detail", "generate", "submit",
                                     "record"}
                    /\ bt[b].k = bt[c].k)
                      => Unpin(bt[b].eligible) = Unpin(bt[c].eligible)
                /\ (Selected(b) /\ Selected(c))
                      => bt[b].sel.postId = bt[c].sel.postId)
    /\ [][\A b, c \in BatchIds :
            /\ (Twins(b, c) /\ Selected(b) /\ bt[c].pc = "filter"
                            /\ bt'[c].pc = "delay")
                  => Last(bt'[c].results) = Failed(Account(c), "ledger")
            /\ (/\ b # c /\ Selected(b) /\ bt[c].pc = "discover"
                /\ Account(b) = Account(c)
                /\ LedgerUntouched /\ bt[b].nowF = now)
                  => \A raw \in PinFeeds :
                        Unpin(SortNewestFirst(raw)) = Unpin(bt[b].posts)
                           => ~(Discover(c, raw, TRUE) /\ bt'[c].pc = "delay")
         ]_vars

C19_Witness ==
    \E b, c \in BatchIds :
       /\ Twins(b, c)
       /\ Selected(b) /\ Selected(c)
       /\ bt[b].sel.isPinned /\ ~bt[c].sel.isPinned
       /\ Len(bt[b].posts) = 2
       /\ bt[b].posts[2].isPinned # bt[c].posts[2].isPinned


-----------------------------------------------------------------------------
(* SpecAge: SpecSelect, and the process may have been up for a long time *)

NextAge ==
    \/ NextSelect
    \/ LongPause

SpecAge == InitSelect /\ [][NextAge]_vars

\* now - post.timestamp as commentOnLatestPost computes it for invocation b.
PostAge(b, post) == bt[b].nowF - post.timestamp

\* The posts of the page that the filter loop of b has gone past.
Examined(b) == {bt[b].posts[n] : n \in 1..(bt[b].k - 1)}

\* C20: with maxPostAge enabled a post the filter has gone past is out of
\* the eligible list whenever its age is strictly above maxPostAge.days, and
\* in it whenever its age is at most maxPostAge.days (exactly that age
\* included) and the ledger has no record of it; the post waiting for its
\* ledger lookup has passed the age test.  With maxPostAge disabled every
\* post without a record is in the list, however old.
C20_AgeFilter ==
    \A b \in BatchIds :
       bt[b].pc \in {"filter", "detail", "generate", "submit", "record"} =>
          LET enabled == botConfig.filtering.maxPostAge.enabled
              limit == botConfig.filtering.maxPostAge.days * TicksPerDay
              kept == SeqRange(bt[b].eligible)
          IN /\ \A post \in Examined(b) :
                   IF enabled
                   THEN /\ PostAge(b, post) > limit => post \notin kept
                        /\ (PostAge(b, post) <= limit /\ ~Recorded(b, post))
                              => post \in kept
                   ELSE ~Recorded(b, post) => post \in kept
             /\ (bt[b].pc = "filter" /\ enabled)
                   => PostAge(b, bt[b].posts[bt[b].k]) <= limit

C20_Witness ==
    \E b \in BatchIds :
       /\ botConfig.filtering.maxPostAge.enabled
       /\ Selected(b)
       /\ PostAge(b, bt[b].sel) = maxPostAgeDays * TicksPerDay
       /\ \E post \in Examined(b) :
             /\ PostAge(b, post) > maxPostAgeDays * TicksPerDay
             /\ ~Recorded(b, post)
             /\ post \notin SeqRange(bt[b].eligible)


-----------------------------------------------------------------------------
(* SpecReason: one batch over a1, which has no record, and a2, whose posts
   are all recorded *)

ReasonFeeds ==
    {<<>>, <<Post("p2")>>, <<Post("p4"), Post("p2")>>, <<Post("p1")>>,
     <<Post("p1"), Post("p2")>>, <<Post("p3"), Post("p1")>>}

InitReason == InitWith({DefaultConfig}, {LedgerOf({"a2"} \X PostIds)})

NextReason ==
    \/ started = 0 /\ SmartCommentRun(<<"a1", "a2">>)
    \/ \E b \in BatchIds : Pipeline(b, ReasonFeeds, CaptionLengths)
    \/ \E b \in BatchIds : Delay(b)
    \/ \E b \in BatchIds : HttpRunEnd(b)
    \/ Advance

SpecReason == InitReason /\ [][NextReason]_vars

\* C21: the skip reason tells the cause apart.  Account a1 has no record, so
\* a skip of a1 that is neither "no posts" nor a missing detail page means
\* that the age filter removed every post; every post of a2 is recorded, so
\* a skip of a2 on a page with posts means "all duplicate"; the two reasons
\* differ.
C21_ReasonTellsCause ==
    \A b \in BatchIds :
       (/\ Len(bt[b].results) = 2
        /\ bt[b].results[1].action = "skipped"
        /\ bt[b].results[1].reason \notin
              {"No posts found", "Failed to get post details"}
        /\ bt[b].results[2].action = "skipped"
        /\ bt[b].results[2].reason # "No posts found")
          => bt[b].results[1].reason # bt[b].results[2].reason


\* C22: when an invocation whose postComment has succeeded returns, the
\* ledger holds exactly one document for the post it commented on.
C22_EngagedUnitRecorded ==
    [][\A b \in BatchIds :
          (bt[b].pc = "record" /\ bt'[b] # bt[b]) =>
             countDocuments(ledger', Account(b), bt[b].sel.postId) = 1]_vars


\* C23: an invocation reaches its recordComment call only from its own
\* postComment call resolving for the same post; every change of the ledger
\* is the insertion, by an invocation suspended at recordComment, of one
\* document with wasSuccessful = true for the post it submitted; and every
\* document of the ledger carries wasSuccessful = true.
C23_RecordAfterSubmit ==
    /\ [](\A doc \in BagToSet(ledger) : doc.wasSuccessful)
    /\ [][/\ \A b \in BatchIds :
               (bt'[b].pc = "record" /\ bt[b].pc # "record") =>
                  /\ bt[b].pc = "submit"
                  /\ bt'[b].sel = bt[b].sel
                  /\ bt'[b].i = bt[b].i
                  /\ posted'[<<Account(b), bt[b].sel.postId>>] =
                        posted[<<Account(b), bt[b].sel.postId>>] + 1
          /\ ledger' # ledger =>
                \E b \in BatchIds :
                   /\ bt[b].pc = "record"
                   /\ bt'[b] # bt[b]
                   /\ posted[<<Account(b), bt[b].sel.postId>>] > 0
                   /\ ledger' = Insert(ledger, Doc(Account(b),
                                                   bt[b].sel.postId, TRUE))
         ]_vars

\* a comment was submitted once and then recorded
C23_Witness ==
    \E a \in Accounts, p \in PostIds :
       /\ posted[<<a, p>>] = 1
       /\ ledger = Insert(EmptyBag, Doc(a, p, TRUE))
       /\ response = RespondResults("smartRun", <<Commented(a, p)>>)


-----------------------------------------------------------------------------
(* SpecLedger: the scheduler, the HTTP runs and the stats queries over a
   ledger that already holds a record *)

EarlierRecords == {<<"a1", "p3">>}

InitLedger ==
    InitWith({[DefaultConfig EXCEPT !.scheduler.skipIfRunning = s] :
                 s \in BOOLEAN},
             {LedgerOf(EarlierRecords)})

NextLedger ==
    \/ Start
    \/ Stop
    \/ TimerFire
    \/ RunNow
    \/ \E targets \in RequestLists : SmartCommentRun(targets)
    \/ \E b \in BatchIds : Pipeline(b, Feeds, CaptionLengths)
    \/ \E b \in BatchIds : SchedulerRunEnd(b)
    \/ \E b \in BatchIds : HttpRunEnd(b)
    \/ \E route \in StatsRoutes, ok \in BOOLEAN : GetStats(route, ok)

SpecLedger == InitLedger /\ [][NextLedger]_vars

\* C24: no step removes or changes a document of the ledger: every document
\* is still there, as often, after the step, so a post that has a record
\* keeps it.
C24_AppendOnly ==
    [][/\ \A doc \in BagToSet(ledger) :
             CopiesIn(doc, ledger') >= CopiesIn(doc, ledger)
       /\ \A a \in Accounts, p \in PostIds :
             countDocuments(ledger, a, p) > 0
                => countDocuments(ledger', a, p) > 0]_vars

\* the earlier record is still there after a run has added one and the
\* stats have been queried
C24_Witness ==
    /\ ledger = LedgerOf(EarlierRecords \cup {<<"a1", "p1">>})
    /\ response = Respond("stats", 200)


-----------------------------------------------------------------------------
(* SpecSnapshot: the scheduler with one target account or with none, runs
   may overlap when skipIfRunning is off *)

InitSnapshot ==
    InitWith({[DefaultConfig EXCEPT !.scheduler.skipIfRunning = s,
                                    !.target.accounts = accounts] :
                 s \in BOOLEAN, accounts \in {<<>>, <<"a1">>}},
             {EmptyBag})

NextSnapshot ==
    \/ Start
    \/ Stop
    \/ TimerFire
    \/ RunNow
    \/ \E b \in BatchIds : Pipeline(b, TimerFeeds, CaptionLengths)
    \/ \E b \in BatchIds : SchedulerRunEnd(b)
    \/ Advance

SpecSnapshot == InitSnapshot /\ [][NextSnapshot]_vars

\* C25: when an invocation of runScheduledTask that passed the guard comes
\* to its end (at once, or when its batch has returned or rejected),
\* lastRunResults is the snapshot of that run: its runId is the run's.
C25_SnapshotOfEveryRun ==
    [][/\ (runCount' = runCount + 1 /\ bt' = bt)
             => lastRunResults'.runId = runCount'
       /\ \A b \in BatchIds :
             (bt[b].origin \in SchedulerOrigins /\ bt'[b] = FreeSlot)
                => lastRunResults'.runId = bt[b].runId]_vars


\* C26: a batch works on one account at a time, in list order: while the
\* pipeline of account i is in progress the results are those of accounts
\* 1..i-1, in that order, and the loop moves to account i+1 only from the
\* delay that follows the push of account i's result.
C26_OneAccountAtATime ==
    /\ [](\A b \in BatchIds :
             (InFlight(b) /\ ~Rejected(b)) =>
                /\ bt[b].i \in 1..Len(bt[b].accounts)
                /\ Len(bt[b].results) =
                      IF bt[b].pc = "delay" THEN bt[b].i ELSE bt[b].i - 1
                /\ \A j \in 1..Len(bt[b].results) :
                      bt[b].results[j].targetAccount = bt[b].accounts[j])
    /\ [][\A b \in BatchIds :
             (InFlight(b) /\ bt'[b].origin # "free" /\ bt'[b].i # bt[b].i) =>
                /\ bt[b].pc = "delay"
                /\ Len(bt[b].results) = bt[b].i
                /\ bt'[b].i = bt[b].i + 1
                /\ bt'[b].pc = "client"
                /\ bt'[b].results = bt[b].results]_vars

\* the second account's pipeline is in progress and the first account's
\* result is the only one pushed
C26_Witness ==
    \E b \in BatchIds :
       /\ bt[b].accounts = <<"a1", "a2", "a3">>
       /\ bt[b].i = 2
       /\ bt[b].pc = "generate"
       /\ bt[b].results = <<Commented("a1", "p1")>>


\* C27: a batch sleeps after each account except the last: it is never
\* suspended in the delay that follows the pipeline of its final account.
C27_NoDelayAfterLast ==
    \A b \in BatchIds :
       (InFlight(b) /\ bt[b].pc = "delay") => bt[b].i < Len(bt[b].accounts)


\* C28: while the scheduler is stopped (this.task is null) no run is
\* started by the scheduler itself: a run that starts then was started by
\* runNow().
C28_NoRunWhileStopped ==
    [][\A b \in BatchIds :
          (~task /\ ~InFlight(b) /\ bt'[b].origin \in SchedulerOrigins)
             => bt'[b].origin = "runNow"]_vars


\* SchedulerService.getStatus(), without interval and nextRun.
getStatus ==
    [enabled |-> botConfig.scheduler.enabled, running |-> task,
     isExecuting |-> isRunning, runCount |-> runCount,
     lastRun |-> lastRunTime, lastResults |-> lastRunResults]

\* C29: getStatus().isExecuting is true exactly when a batch started by the
\* scheduler is in flight, whatever skipIfRunning is.
C29_IsExecutingExact == getStatus.isExecuting <=> SchedulerBatches # {}


\* C30: runCount moves by one, exactly on the steps on which a run passes
\* the guard, and gives the new run its id; the runs in flight have
\* different ids; a snapshot is stored with the id and the start time of the
\* run that stores it; and the snapshot of a run is never replaced by the
\* snapshot of a run that started earlier.
C30_SnapshotConsistent ==
    /\ [](\A b, c \in SchedulerBatches :
             /\ bt[b].runId \in 1..runCount
             /\ b # c => bt[b].runId # bt[c].runId)
    /\ [][/\ runCount' \in {runCount, runCount + 1}
          /\ \A b \in BatchIds :
                (~InFlight(b) /\ bt'[b].origin \in SchedulerOrigins) =>
                   /\ runCount' = runCount + 1
                   /\ bt'[b].runId = runCount'
          /\ runCount' = runCount + 1 =>
                lastGuard' \in {"started", "proceeding"}
          /\ \A b \in BatchIds :
                (bt[b].origin \in SchedulerOrigins /\ bt'[b] = FreeSlot) =>
                   /\ lastRunResults'.runId = bt[b].runId
                   /\ lastRunResults'.timestamp = bt[b].startTime
          /\ lastRunResults'.runId >= lastRunResults.runId]_vars


\* C31: the answer of runNow() carries the snapshot of the run that the call
\* executed: the run whose batch has just returned to it, and never the
\* snapshot of an earlier run when the call ran no batch (skipped by the
\* guard, or no target account).
C31_RunNowReturnsOwnRun ==
    [][(response' # response /\ response'.route = "runNow") =>
          IF \E b \in BatchIds : bt[b].origin = "runNow" /\ bt'[b] = FreeSlot
          THEN \E b \in BatchIds :
                  /\ bt[b].origin = "runNow" /\ bt'[b] = FreeSlot
                  /\ response'.runId = bt[b].runId
          ELSE response'.runId \notin 1..runCount]_vars


-----------------------------------------------------------------------------
(* SpecRunning: SpecSnapshot with the clock standing still *)

NextRunning ==
    \/ Start
    \/ Stop
    \/ TimerFire
    \/ RunNow
    \/ \E b \in BatchIds : Pipeline(b, TimerFeeds, CaptionLengths)
    \/ \E b \in BatchIds : SchedulerRunEnd(b)

SpecRunning == InitSnapshot /\ [][NextRunning]_vars

\* Every awaited call of a batch settles, whichever batch it belongs to.
SpecRunningFair ==
    /\ SpecRunning
    /\ \A b \in BatchIds :
          WF_vars(Pipeline(b, TimerFeeds, CaptionLengths)
                     \/ SchedulerRunEnd(b))

\* C32: a run that passed the guard comes to its end, and the step that ends
\* it (the return for an empty target list, or the finally after the batch)
\* leaves isRunning false, so that the guard lets the next trigger through:
\* isRunning never stays raised for ever.
C32_RunningIsCleared ==
    /\ [][/\ (runCount' = runCount + 1 /\ bt' = bt) => ~isRunning'
          /\ \A b \in BatchIds :
                (bt[b].origin \in SchedulerOrigins /\ bt'[b] = FreeSlot)
                   => /\ ~isRunning'
                      /\ ~GuardSkips(isRunning',
                                     botConfig.scheduler.skipIfRunning)]_vars
    /\ \A b \in BatchIds :
          (bt[b].origin \in SchedulerOrigins) ~> (bt[b] = FreeSlot)
    /\ isRunning ~> ~isRunning

\* a run whose batch ended with a failed account has cleared the flag
C32_Witness ==
    /\ ~isRunning
    /\ lastRunResults.runId = 1
    /\ lastRunResults.results = <<Failed("a1", "client")>>
    /\ lastGuard = "started"


-----------------------------------------------------------------------------
\* The order of the awaits of one commentOnLatestPost call.
PcRank ==
    [client |-> 1, init |-> 2, discover |-> 3, filter |-> 4, detail |-> 5,
     generate |-> 6, submit |-> 7, record |-> 8, delay |-> 9, rejected |-> 9]
\* Batch b takes a step of the commentOnLatestPost call it is awaiting.
PipelineStep(b) ==
    /\ InFlight(b)
    /\ bt[b].pc \notin {"delay", "rejected"}
    /\ bt'[b] # bt[b]

\* C33: in one commentOnLatestPost call the steps fetchDetail, generate,
\* submit and record run in this order, each at most once, each only after
\* the step before it succeeded and only for the one selected post; an empty
\* page, a page without an eligible post and a null detail end the call with
\* a 'skipped' result with success = true, after which nothing was submitted
\* or recorded
C33_ShortCircuitInOrder ==
    [][/\ \A b \in BatchIds :
            PipelineStep(b) =>
              /\ bt'[b].i = bt[b].i
              /\ \/ PcRank[bt'[b].pc] > PcRank[bt[b].pc]
                 \/ bt[b].pc = "filter" /\ bt'[b].pc = "filter"
              /\ bt'[b].pc = "detail" =>
                    /\ bt[b].pc \in {"discover", "filter"}
                    /\ bt'[b].eligible # <<>>
                    /\ bt'[b].sel = bt'[b].eligible[1]
                    /\ bt'[b].sel \in SeqRange(bt'[b].posts)
              /\ bt'[b].pc = "generate" =>
                    bt[b].pc = "detail" /\ bt'[b].sel = bt[b].sel
              /\ bt'[b].pc = "submit" =>
                    bt[b].pc = "generate" /\ bt'[b].sel = bt[b].sel
              /\ bt'[b].pc = "record" =>
                    /\ bt[b].pc = "submit" /\ bt'[b].sel = bt[b].sel
                    /\ posted' = [posted EXCEPT
                                    ![<<Account(b), bt[b].sel.postId>>] = @ + 1]
              /\ Returns(b, "commented") =>
                    /\ bt[b].pc = "record"
                    /\ ledger' = Insert(ledger,
                                    Doc(Account(b), bt[b].sel.postId, TRUE))
              /\ Returns(b, "skipped") =>
                    /\ bt[b].pc \in {"discover", "filter", "detail"}
                    /\ Last(bt'[b].results).success
                    /\ posted' = posted
                    /\ ledger' = ledger
       /\ posted' # posted =>
             \E b \in BatchIds : bt[b].pc = "submit" /\ bt'[b].pc = "record"
       /\ ledger' # ledger =>
             \E b \in BatchIds : Returns(b, "commented")]_vars
\* a call has commented on p2 with p4 recorded earlier, and nothing but p2
\* was submitted or recorded by it
C33_Witness ==
    \E b \in BatchIds :
        /\ bt[b].pc = "delay"
        /\ Last(bt[b].results) = Commented("a1", "p2")
        /\ posted = [key \in Accounts \X PostIds |->
                        IF key = <<"a1", "p2">> THEN 1 ELSE 0]
        /\ ledger = LedgerOf({<<"a1", "p2">>, <<"a1", "p4">>})


-----------------------------------------------------------------------------
\* C34: commentOnLatestPost never throws and ends with exactly one result;
\* in every result success is false exactly when action is 'failed', and a
\* 'commented' result names a post for which the ledger holds a record of
\* its target account
C34_OneAgreeingResult ==
    /\ [](\A b \in BatchIds : ~Rejected(b))
    /\ [](\A r \in AllResults :
             /\ r.action \in {"commented", "skipped", "failed"}
             /\ ~r.success <=> r.action = "failed"
             /\ r.action = "commented" =>
                   countDocuments(ledger, r.targetAccount, r.postId) > 0)
    /\ [][\A b \in BatchIds :
             PipelineStep(b) =>
                 /\ bt'[b].pc # "rejected"
                 /\ Len(bt'[b].results) =
                       Len(bt[b].results)
                          + (IF bt'[b].pc = "delay" THEN 1 ELSE 0)
                 /\ bt'[b].pc = "delay" =>
                       Last(bt'[b].results).targetAccount = Account(b)]_vars
\* one batch has returned a 'commented', a 'failed' and a 'skipped' result
C34_Witness ==
    /\ lastRunResults.results =
          <<Commented("a1", "p1"), Failed("a2", "generate"),
            Skipped("a3", "No posts found")>>
    /\ countDocuments(ledger, "a1", "p1") = 1


-----------------------------------------------------------------------------
\* C35: stop() disarms the cron task and leaves runCount, lastRunTime,
\* lastRunResults and isRunning as they are; stop() with no task armed
\* changes nothing at all; start() on a stopped, enabled scheduler arms one
\* task and leaves the counters and the last snapshot as they are
C35_StopChangesOnlyTimer ==
    [][/\ Stop => /\ ~task'
                  /\ timers' = 0
                  /\ UNCHANGED <<runCount, lastRunTime, lastRunResults,
                                 isRunning, startup, lastGuard>>
       /\ (Stop /\ ~task) => UNCHANGED vars
       /\ (Start /\ ~task /\ botConfig.scheduler.enabled) =>
             /\ task'
             /\ timers' = 1
             /\ UNCHANGED <<runCount, lastRunTime, lastRunResults,
                            isRunning, lastGuard>>]_vars
\* start(), the startup run begun, stop(), start() again: the task is armed,
\* a second startup callback is pending, and the first run is still counted
\* and still executing
C35_Witness ==
    /\ task
    /\ timers = 1
    /\ startup = 1
    /\ runCount = 1
    /\ isRunning
    /\ \E b \in BatchIds : bt[b].origin = "startup" /\ bt[b].pc = "submit"


-----------------------------------------------------------------------------
(* SpecJobs: the webhook with well-formed requests only *)

JobLists == {<<"a1">>, <<"a2", "a1">>, <<"a1", "a2">>}
JobKeys == {SortAccounts(list) : list \in JobLists}

NextJobs ==
    \/ \E list \in JobLists : WebhookRunBot(WebhookRequest(list, ""), "")
    \/ \E b \in BatchIds : Pipeline(b, TimerFeeds, CaptionLengths)
    \/ \E b \in BatchIds : Delay(b)
    \/ \E b \in BatchIds : WebhookJobEnd(b)

SpecJobs == InitWebhook /\ [][NextJobs]_vars

\* Every awaited call of a job settles and every delay elapses, whichever
\* job it belongs to.
SpecJobsFair ==
    /\ SpecJobs
    /\ \A b \in BatchIds :
          WF_vars(\/ Pipeline(b, TimerFeeds, CaptionLengths)
                  \/ Delay(b)
                  \/ WebhookJobEnd(b))

\* C36: activeJobs holds exactly the keys of the webhook jobs in flight, the
\* step that ends a job removes its key, and every key in activeJobs is
\* eventually removed, so no account set is answered 409 forever
C36_JobKeyReleased ==
    /\ [](activeJobs = {bt[b].accounts : b \in WebhookBatches})
    /\ [][\A b \in BatchIds :
             (bt[b].origin = "webhook" /\ bt'[b] = FreeSlot)
                => /\ bt[b].accounts \notin activeJobs'
                   /\ ~KeyActive(bt[b].accounts, activeJobs')]_vars
    /\ \A key \in JobKeys : (key \in activeJobs) ~> (key \notin activeJobs)
\* two jobs were accepted, the later one for a1; both have ended, a1's post
\* is recorded and no key is left
C36_Witness ==
    /\ started = 2
    /\ activeJobs = {}
    /\ Idle
    /\ response = RespondJob(202, <<"a1">>)
    /\ ledger = LedgerOf({<<"a1", "p1">>})


-----------------------------------------------------------------------------
\* C37: a caller that getIgClient has answered holds a client whose init()
\* has completed successfully, also when it called while another caller's
\* init() was in progress or after an init() that failed
C37_OnlyInitialisedClient ==
    \A b \in BatchIds :
        bt[b].pc \in {"discover", "filter", "detail", "generate", "submit",
                      "record"}
            => bt[b].client = "ready"

=============================================================================
